---- MODULE Spec2Model ----
(***************************************************************************)
(* Model of applications/main/bad_usb/bad_usb_app.c: the settings codec    *)
(* (bad_usb_load_settings / bad_usb_save_settings), the USB configuration  *)
(* guard and the construction / teardown sequence of the application       *)
(* context (bad_usb_app_alloc / bad_usb_app_free / bad_usb_app).           *)
(***************************************************************************)
EXTENDS Integers, Sequences, FiniteSets, TLC

(***************************************************************************)
(* Bounds of the model                                                     *)
(***************************************************************************)
\* longest settings file (in fields) the initial states enumerate
MaxFields == 4

(***************************************************************************)
(* Program constants                                                       *)
(***************************************************************************)
BAD_USB_APP_BASE_FOLDER == "/ext/badusb"
BAD_USB_SETTINGS_FILE_TYPE == "Flipper BadUSB Settings File"
BAD_USB_SETTINGS_VERSION == 1
BAD_USB_SETTINGS_DEFAULT_LAYOUT == "/ext/badusb/assets/layouts/en-US.kl"
BadUsbHidInterfaceUsb == 0
BadUsbHidInterfaceBle == 1
LayoutFileSize == 256

\* a second layout resource, and a file type of another application
CustomLayout == "/ext/badusb/assets/layouts/de-DE.kl"
OtherFileType == "Flipper BadUSB Layout File"

(***************************************************************************)
(* flipper_format: a file is a list of "key: value" lines, values are text *)
(***************************************************************************)
\* decimal text of the unsigned values the model uses
DecStr == <<"0", "1", "2", "3">>

\* flipper_format_write_uint32 writes the value as decimal text
FormatUInt32(n) == DecStr[n + 1]

\* flipper_format_read_uint32 parses decimal text; anything else fails
ParseUInt32(s) ==
    IF \E n \in 1..Len(DecStr) : DecStr[n] = s
    THEN [ok |-> TRUE, value |-> (CHOOSE n \in 1..Len(DecStr) : DecStr[n] = s) - 1]
    ELSE [ok |-> FALSE, value |-> 0]

Field(k, v) == [key |-> k, val |-> v]

\* a read seeks forward from the cursor to the first line with the key;
\* 0 when there is none
SeekKey(data, pos, k) ==
    LET S == {i \in pos..Len(data) : data[i].key = k}
    IN IF S = {} THEN 0 ELSE CHOOSE i \in S : \A j \in S : i <= j

\* flipper_format_read_string
ReadString(data, pos, k) ==
    LET i == SeekKey(data, pos, k)
    IN IF i = 0 THEN [ok |-> FALSE, str |-> "", pos |-> Len(data) + 1]
       ELSE [ok |-> TRUE, str |-> data[i].val, pos |-> i + 1]

\* flipper_format_read_uint32 with one value
ReadUInt32(data, pos, k) ==
    LET i == SeekKey(data, pos, k)
    IN IF i = 0 THEN [ok |-> FALSE, value |-> 0, pos |-> Len(data) + 1]
       ELSE [ok |-> ParseUInt32(data[i].val).ok,
             value |-> ParseUInt32(data[i].val).value, pos |-> i + 1]

\* flipper_format_read_header: the "Filetype" string, then the "Version"
ReadHeader(data) ==
    LET t == ReadString(data, 1, "Filetype")
        v == ReadUInt32(data, t.pos, "Version")
    IN IF ~t.ok THEN [ok |-> FALSE, str |-> "", version |-> 0, pos |-> t.pos]
       ELSE [ok |-> v.ok, str |-> t.str, version |-> v.value, pos |-> v.pos]

\* storage_common_stat on a map from the existing paths to their sizes
Stat(files, path) ==
    IF path \in DOMAIN files
    THEN [err |-> "FSE_OK", size |-> files[path]]
    ELSE [err |-> "FSE_NOT_EXIST", size |-> 0]

(***************************************************************************)
(* Settings codec                                                          *)
(***************************************************************************)
\* lines 75-96 with the version check left out
LoadParse_NoVersionCheck(file) ==
    IF ~file.exists THEN [state |-> FALSE, temp_str |-> "", interface |-> 0]
    ELSE LET h == ReadHeader(file.data)
             l == ReadString(file.data, h.pos, "layout")
             u == ReadUInt32(file.data, l.pos, "interface")
         IN IF ~h.ok THEN [state |-> FALSE, temp_str |-> h.str, interface |-> 0]
            ELSE IF h.str # BAD_USB_SETTINGS_FILE_TYPE
                 THEN [state |-> FALSE, temp_str |-> h.str, interface |-> 0]
            ELSE IF ~l.ok THEN [state |-> FALSE, temp_str |-> h.str, interface |-> 0]
            ELSE IF ~u.ok THEN [state |-> FALSE, temp_str |-> l.str, interface |-> 0]
            ELSE IF u.value > BadUsbHidInterfaceBle
                 THEN [state |-> FALSE, temp_str |-> l.str, interface |-> u.value]
            ELSE [state |-> TRUE, temp_str |-> l.str, interface |-> u.value]

\* lines 75-96 with the range check of the interface left out
LoadParse_NoRangeCheck(file) ==
    IF ~file.exists THEN [state |-> FALSE, temp_str |-> "", interface |-> 0]
    ELSE LET h == ReadHeader(file.data)
             l == ReadString(file.data, h.pos, "layout")
             u == ReadUInt32(file.data, l.pos, "interface")
         IN IF ~h.ok THEN [state |-> FALSE, temp_str |-> h.str, interface |-> 0]
            ELSE IF (h.str # BAD_USB_SETTINGS_FILE_TYPE) \/
                    (h.version # BAD_USB_SETTINGS_VERSION)
                 THEN [state |-> FALSE, temp_str |-> h.str, interface |-> 0]
            ELSE IF ~l.ok THEN [state |-> FALSE, temp_str |-> h.str, interface |-> 0]
            ELSE IF ~u.ok THEN [state |-> FALSE, temp_str |-> l.str, interface |-> 0]
            ELSE [state |-> TRUE, temp_str |-> l.str, interface |-> u.value]

\* bad_usb_load_settings, lines 75-96: the read of the file.  The result is
\* the locals state, temp_str and interface when the file is closed.
LoadParse(file) ==
    IF ~file.exists THEN [state |-> FALSE, temp_str |-> "", interface |-> 0]
    ELSE LET h == ReadHeader(file.data)
             l == ReadString(file.data, h.pos, "layout")
             u == ReadUInt32(file.data, l.pos, "interface")
         IN IF ~h.ok THEN [state |-> FALSE, temp_str |-> h.str, interface |-> 0]
            ELSE IF (h.str # BAD_USB_SETTINGS_FILE_TYPE) \/
                    (h.version # BAD_USB_SETTINGS_VERSION)
                 THEN [state |-> FALSE, temp_str |-> h.str, interface |-> 0]
            ELSE IF ~l.ok THEN [state |-> FALSE, temp_str |-> h.str, interface |-> 0]
            ELSE IF ~u.ok THEN [state |-> FALSE, temp_str |-> l.str, interface |-> 0]
            ELSE IF u.value > BadUsbHidInterfaceBle
                 THEN [state |-> FALSE, temp_str |-> l.str, interface |-> u.value]
            ELSE [state |-> TRUE, temp_str |-> l.str, interface |-> u.value]

\* lines 98-113 with the whole record reset when the layout resource is bad
LoadApply_ResetAll(p, files) ==
    IF p.state
    THEN IF (Stat(files, p.temp_str).err # "FSE_OK") \/
            (Stat(files, p.temp_str).size # LayoutFileSize)
         THEN [keyboard_layout |-> BAD_USB_SETTINGS_DEFAULT_LAYOUT,
               interface |-> BadUsbHidInterfaceUsb]
         ELSE [keyboard_layout |-> p.temp_str, interface |-> p.interface]
    ELSE [keyboard_layout |-> BAD_USB_SETTINGS_DEFAULT_LAYOUT,
          interface |-> BadUsbHidInterfaceUsb]

\* lines 98-113 with a layout resource rejected only when it is too short
LoadApply_SizeAtLeast(p, files) ==
    IF p.state
    THEN IF (Stat(files, p.temp_str).err # "FSE_OK") \/
            (Stat(files, p.temp_str).size < LayoutFileSize)
         THEN [keyboard_layout |-> BAD_USB_SETTINGS_DEFAULT_LAYOUT,
               interface |-> p.interface]
         ELSE [keyboard_layout |-> p.temp_str, interface |-> p.interface]
    ELSE [keyboard_layout |-> BAD_USB_SETTINGS_DEFAULT_LAYOUT,
          interface |-> BadUsbHidInterfaceUsb]

\* bad_usb_load_settings, lines 98-113: the record the application ends with
LoadApply(p, files) ==
    IF p.state
    THEN IF (Stat(files, p.temp_str).err # "FSE_OK") \/
            (Stat(files, p.temp_str).size # LayoutFileSize)
         THEN [keyboard_layout |-> BAD_USB_SETTINGS_DEFAULT_LAYOUT,
               interface |-> p.interface]
         ELSE [keyboard_layout |-> p.temp_str, interface |-> p.interface]
    ELSE [keyboard_layout |-> BAD_USB_SETTINGS_DEFAULT_LAYOUT,
          interface |-> BadUsbHidInterfaceUsb]

\* bad_usb_load_settings
bad_usb_load_settings(file, files) == LoadApply(LoadParse(file), files)

\* the lines of a complete settings file, in the order they are written
SaveLines(rec) ==
    << Field("Filetype", BAD_USB_SETTINGS_FILE_TYPE),
       Field("Version", FormatUInt32(BAD_USB_SETTINGS_VERSION)),
       Field("layout", rec.keyboard_layout),
       Field("interface", FormatUInt32(rec.interface)) >>

\* what storage can do to a save: the open fails, a write fails after so
\* many lines reached the file, or nothing fails
SaveOutcomes == {"open_failed", "failed_after_0", "failed_after_1",
                 "failed_after_2", "failed_after_3", "ok"}

LinesWritten(outcome) ==
    CASE outcome = "failed_after_0" -> 0
      [] outcome = "failed_after_1" -> 1
      [] outcome = "failed_after_2" -> 2
      [] outcome = "failed_after_3" -> 3
      [] OTHER -> 4

\* bad_usb_save_settings with the two fields written in the other order
bad_usb_save_settings_Swapped(file, rec, outcome) ==
    IF outcome = "open_failed" THEN file
    ELSE [exists |-> TRUE,
          data |-> SubSeq(<< SaveLines(rec)[1], SaveLines(rec)[2],
                             Field("layout", FormatUInt32(rec.interface)),
                             Field("interface", rec.keyboard_layout) >>,
                          1, LinesWritten(outcome))]

\* bad_usb_save_settings without the break after a failed write of the
\* layout: the interface is still written
bad_usb_save_settings_NoBreak(file, rec, outcome) ==
    IF outcome = "open_failed" THEN file
    ELSE IF outcome = "failed_after_2"
    THEN [exists |-> TRUE,
          data |-> << SaveLines(rec)[1], SaveLines(rec)[2],
                      SaveLines(rec)[4] >>]
    ELSE [exists |-> TRUE,
          data |-> SubSeq(SaveLines(rec), 1, LinesWritten(outcome))]

\* bad_usb_save_settings: the settings file it leaves
bad_usb_save_settings(file, rec, outcome) ==
    IF outcome = "open_failed" THEN file
    ELSE [exists |-> TRUE,
          data |-> SubSeq(SaveLines(rec), 1, LinesWritten(outcome))]

(***************************************************************************)
(* State                                                                   *)
(***************************************************************************)
VARIABLES
    settings_file,    \* the file at BAD_USB_SETTINGS_PATH: [exists, data]
    layout_files,     \* the layout resources in storage: path -> size
    usb_locked,       \* furi_hal_usb_is_locked()
    usb_config,       \* the active USB configuration, "none" for NULL
    arg,              \* the entry argument of bad_usb_app
    pc,               \* position of the application thread
    app_alive,        \* the BadUsbApp context: "none", "live" or "freed"
    file_path,        \* app->file_path
    keyboard_layout,  \* app->keyboard_layout
    interface,        \* app->interface
    bad_usb_script,   \* app->bad_usb_script, "NULL" or the handle
    usb_if_prev,      \* app->usb_if_prev, "none" for NULL
    error,            \* app->error
    scene,            \* the scene the scene manager is in
    log,              \* the calls this file made, in order
    call,             \* the callback running: what it was given, the
                      \* scene-manager call it made and what that returned
    result,           \* what the callback returned
    script_ran,       \* the script engine was opened in this run
    usb_before,       \* the USB configuration when the run began
    op,               \* the last operation on the settings
    saved             \* the record of the last complete save, if any

vars == << settings_file, layout_files, usb_locked, usb_config, arg, pc,
           app_alive, file_path, keyboard_layout, interface, bad_usb_script,
           usb_if_prev, error, scene, log, call, result, script_ran, usb_before,
           op, saved >>

appVars == << usb_locked, usb_config, arg, pc, app_alive, file_path,
              bad_usb_script, usb_if_prev, error, scene, log, call, result,
              script_ran, usb_before >>

NoCall == [kind |-> "none", given |-> 0, handler |-> "none", event |-> 0,
           ret |-> FALSE]

\* the settings record of the application context
Record == [keyboard_layout |-> keyboard_layout, interface |-> interface]

DefaultRecord == [keyboard_layout |-> BAD_USB_SETTINGS_DEFAULT_LAYOUT,
                  interface |-> BadUsbHidInterfaceUsb]

(***************************************************************************)
(* The inputs: settings files and layout resources                         *)
(***************************************************************************)
MissingFile == [exists |-> FALSE, data |-> << >>]

FileFields ==
    {Field("Filetype", t) : t \in {BAD_USB_SETTINGS_FILE_TYPE, OtherFileType}}
    \cup {Field("Version", v) : v \in {"1", "2", ""}}
    \cup {Field("layout", l) : l \in {CustomLayout}}
    \cup {Field("interface", i) : i \in {"0", "1", "2", ""}}
    \cup {Field("comment", "x")}

\* every file of at most MaxFields lines, no key twice, in any order
SettingsFiles ==
    {MissingFile} \cup
    {[exists |-> TRUE, data |-> d] :
        d \in UNION {{e \in [1..n -> FileFields] :
                        \A i, j \in 1..n : (i < j) => (e[i].key # e[j].key)} :
                     n \in 0..MaxFields}}

LayoutPaths == {BAD_USB_SETTINGS_DEFAULT_LAYOUT, CustomLayout}

\* the default layout is there or not; the other one is missing, short,
\* exact or long
LayoutStates ==
    {[p \in D |-> IF p = CustomLayout THEN s ELSE LayoutFileSize] :
        D \in SUBSET LayoutPaths, s \in {LayoutFileSize - 1, LayoutFileSize,
                                          LayoutFileSize + 1}}

\* the records a user can configure: any layout path, one of the interfaces
UserRecords ==
    [keyboard_layout : LayoutPaths,
     interface : {BadUsbHidInterfaceUsb, BadUsbHidInterfaceBle}]

(***************************************************************************)
(* The codec on its own: load, configure, save, and storage changing       *)
(***************************************************************************)
InitCodec ==
    /\ settings_file \in SettingsFiles
    /\ layout_files \in LayoutStates
    /\ usb_locked = FALSE
    /\ usb_config = "none"
    /\ arg = "NULL"
    /\ pc = "settings"
    /\ app_alive = "live"
    /\ file_path = ""
    /\ keyboard_layout = ""
    /\ interface = 0
    /\ bad_usb_script = "NULL"
    /\ usb_if_prev = "none"
    /\ error = "none"
    /\ scene = "none"
    /\ log = << >>
    /\ call = NoCall
    /\ result = FALSE
    /\ script_ran = FALSE
    /\ usb_before = "none"
    /\ op = "init"
    /\ saved = {}

\* bad_usb_load_settings(app)
Load ==
    /\ keyboard_layout' =
           bad_usb_load_settings(settings_file, layout_files).keyboard_layout
    /\ interface' = bad_usb_load_settings(settings_file, layout_files).interface
    /\ op' = "load"
    /\ UNCHANGED << settings_file, layout_files, saved >>

\* bad_usb_save_settings(app)
Save(outcome) ==
    /\ settings_file' = bad_usb_save_settings(settings_file, Record, outcome)
    /\ saved' = IF outcome = "ok" THEN {Record}
                ELSE IF outcome = "open_failed" THEN saved ELSE {}
    /\ op' = "save"
    /\ UNCHANGED << layout_files, keyboard_layout, interface >>

\* the configuration scenes store the user's choice in the context
Configure(r) ==
    /\ keyboard_layout' = r.keyboard_layout
    /\ interface' = r.interface
    /\ op' = "config"
    /\ UNCHANGED << settings_file, layout_files, saved >>

\* layout resources are added, removed or replaced behind the application
LayoutChange(f) ==
    /\ f # layout_files
    /\ layout_files' = f
    /\ op' = "storage"
    /\ UNCHANGED << settings_file, keyboard_layout, interface, saved >>

CodecLoad == Load /\ UNCHANGED appVars

CodecConfigure ==
    /\ op # "init"
    /\ \E r \in UserRecords : Configure(r)
    /\ UNCHANGED appVars

CodecSave ==
    /\ op # "init"
    /\ \E o \in SaveOutcomes : Save(o)
    /\ UNCHANGED appVars

CodecLayoutChange ==
    /\ op # "init"
    /\ \E f \in LayoutStates : LayoutChange(f)
    /\ UNCHANGED appVars

NextCodec == CodecLoad \/ CodecConfigure \/ CodecSave \/ CodecLayoutChange

SpecCodec == InitCodec /\ [][NextCodec]_vars

(***************************************************************************)
(* The application: bad_usb_app = alloc, view_dispatcher_run, free         *)
(***************************************************************************)
NullArg == "NULL"
DemoScript == "/ext/badusb/demo.txt"
EntryArgs == {NullArg, "", DemoScript}
ScriptHandle == "script"
UsbConfigs == {"none", "usb_cdc"}

\* a complete settings file holding the record
CompleteFile(rec) == [exists |-> TRUE, data |-> SaveLines(rec)]

SampleFiles ==
    { MissingFile,
      CompleteFile([keyboard_layout |-> CustomLayout,
                    interface |-> BadUsbHidInterfaceBle]),
      [exists |-> TRUE,
       data |-> << Field("Filetype", BAD_USB_SETTINGS_FILE_TYPE),
                   Field("Version", "2"),
                   Field("layout", CustomLayout),
                   Field("interface", "1") >>],
      [exists |-> TRUE,
       data |-> << Field("Filetype", BAD_USB_SETTINGS_FILE_TYPE),
                   Field("Version", "1"),
                   Field("layout", CustomLayout),
                   Field("interface", "2") >>],
      [exists |-> TRUE,
       data |-> << Field("Filetype", BAD_USB_SETTINGS_FILE_TYPE),
                   Field("Version", "1"),
                   Field("layout", CustomLayout) >>] }

SampleLayouts ==
    { [p \in LayoutPaths |-> LayoutFileSize],
      [p \in {BAD_USB_SETTINGS_DEFAULT_LAYOUT} |-> LayoutFileSize] }

Init ==
    /\ settings_file \in SampleFiles
    /\ layout_files \in SampleLayouts
    /\ usb_locked \in BOOLEAN
    /\ usb_config \in UsbConfigs
    /\ usb_before = usb_config
    /\ arg \in EntryArgs
    /\ pc = "start"
    /\ app_alive = "none"
    /\ file_path = ""
    /\ keyboard_layout = ""
    /\ interface = 0
    /\ bad_usb_script = "NULL"
    /\ usb_if_prev = "none"
    /\ error = "unset"
    /\ scene = "none"
    /\ log = << >>
    /\ call = NoCall
    /\ result = FALSE
    /\ script_ran = FALSE
    /\ op = "init"
    /\ saved = {}

settingsVars == << settings_file, layout_files, keyboard_layout, interface,
                   op, saved >>

Step(from, to, calls) ==
    /\ pc = from
    /\ pc' = to
    /\ log' = log \o calls

\* lines 162-170: the context, the NULL script handle, the two strings
Alloc_Begin ==
    /\ Step("start", "alloc_load", << "malloc" >>)
    /\ app_alive' = "live"
    /\ bad_usb_script' = "NULL"
    /\ file_path' = IF arg # NullArg /\ arg # "" THEN arg ELSE ""
    /\ keyboard_layout' = ""
    /\ UNCHANGED << settings_file, layout_files, interface, op, saved,
                    usb_locked, usb_config, arg, usb_if_prev, error, scene,
                    call, result, script_ran, usb_before >>

\* line 172
Alloc_LoadSettings ==
    /\ Step("alloc_load", "alloc_records", << "load_settings" >>)
    /\ Load
    /\ UNCHANGED << usb_locked, usb_config, arg, app_alive, file_path,
                    bad_usb_script, usb_if_prev, error, scene, call, result,
                    script_ran, usb_before >>

\* lines 174-176
Alloc_OpenRecords ==
    /\ Step("alloc_records", "alloc_dispatcher",
            << "open_gui", "open_notification", "open_dialogs" >>)
    /\ UNCHANGED << settingsVars, usb_locked, usb_config, arg, app_alive,
                    file_path, bad_usb_script, usb_if_prev, error, scene,
                    call, result, script_ran, usb_before >>

\* lines 178-189
Alloc_Dispatcher ==
    /\ Step("alloc_dispatcher", "alloc_views",
            << "view_dispatcher_alloc", "scene_manager_alloc",
               "set_callbacks" >>)
    /\ UNCHANGED << settingsVars, usb_locked, usb_config, arg, app_alive,
                    file_path, bad_usb_script, usb_if_prev, error, scene,
                    call, result, script_ran, usb_before >>

\* lines 192-206 with the dispatcher attached before the last two views
\* are added
Alloc_Views_AttachEarly ==
    /\ Step("alloc_views", "alloc_usb",
            << "widget_alloc", "add_view_error", "attach_to_gui",
               "var_item_list_alloc", "add_view_config",
               "bad_usb_view_alloc", "add_view_work" >>)
    /\ UNCHANGED << settingsVars, usb_locked, usb_config, arg, app_alive,
                    file_path, bad_usb_script, usb_if_prev, error, scene,
                    call, result, script_ran, usb_before >>

\* lines 192-204
Alloc_Views ==
    /\ Step("alloc_views", "alloc_attach",
            << "widget_alloc", "add_view_error",
               "var_item_list_alloc", "add_view_config",
               "bad_usb_view_alloc", "add_view_work" >>)
    /\ UNCHANGED << settingsVars, usb_locked, usb_config, arg, app_alive,
                    file_path, bad_usb_script, usb_if_prev, error, scene,
                    call, result, script_ran, usb_before >>

\* line 206
Alloc_AttachToGui ==
    /\ Step("alloc_attach", "alloc_usb", << "attach_to_gui" >>)
    /\ UNCHANGED << settingsVars, usb_locked, usb_config, arg, app_alive,
                    file_path, bad_usb_script, usb_if_prev, error, scene,
                    call, result, script_ran, usb_before >>

\* lines 208-211 with the layout put back to the default on the error path
Alloc_UsbLocked_ResetsLayout ==
    /\ usb_locked
    /\ Step("alloc_usb", "run", << "usb_is_locked", "next_scene_error" >>)
    /\ error' = "BadUsbAppErrorCloseRpc"
    /\ usb_if_prev' = "none"
    /\ scene' = "Error"
    /\ keyboard_layout' = BAD_USB_SETTINGS_DEFAULT_LAYOUT
    /\ UNCHANGED << settings_file, layout_files, interface, op, saved,
                    usb_locked, usb_config, arg, app_alive, file_path,
                    bad_usb_script, call, result, script_ran, usb_before >>

\* lines 208-211: USB is locked
Alloc_UsbLocked ==
    /\ usb_locked
    /\ Step("alloc_usb", "run", << "usb_is_locked", "next_scene_error" >>)
    /\ error' = "BadUsbAppErrorCloseRpc"
    /\ usb_if_prev' = "none"
    /\ scene' = "Error"
    /\ UNCHANGED << settingsVars, usb_locked, usb_config, arg, app_alive,
                    file_path, bad_usb_script, call, result, script_ran,
                    usb_before >>

\* lines 208, 213-214 with the locked branch taken as well
Alloc_UsbGuard_IgnoreLock(set_ok) ==
    /\ Step("alloc_usb", IF set_ok THEN "alloc_scene" ELSE "halted",
            << "usb_is_locked", "usb_get_config", "usb_set_config_none" >>)
    /\ usb_if_prev' = usb_config
    /\ usb_config' = IF set_ok THEN "none" ELSE usb_config
    /\ UNCHANGED << settingsVars, usb_locked, arg, app_alive, file_path,
                    bad_usb_script, error, scene, call, result, script_ran,
                    usb_before >>

\* lines 208, 213-214 without the neutral configuration being set
Alloc_UsbGuard_NoNeutral(set_ok) ==
    /\ ~usb_locked
    /\ Step("alloc_usb", IF set_ok THEN "alloc_scene" ELSE "halted",
            << "usb_is_locked", "usb_get_config", "usb_set_config_none" >>)
    /\ usb_if_prev' = usb_config
    /\ UNCHANGED << settingsVars, usb_locked, usb_config, arg, app_alive,
                    file_path, bad_usb_script, error, scene, call, result,
                    script_ran, usb_before >>

\* lines 208, 213-214 with the guard applied only when the loaded interface
\* is USB
Alloc_UsbGuard_OnlyForUsb(set_ok) ==
    /\ ~usb_locked
    /\ IF interface = BadUsbHidInterfaceUsb
       THEN /\ Step("alloc_usb", IF set_ok THEN "alloc_scene" ELSE "halted",
                    << "usb_is_locked", "usb_get_config",
                       "usb_set_config_none" >>)
            /\ usb_if_prev' = usb_config
            /\ usb_config' = IF set_ok THEN "none" ELSE usb_config
       ELSE /\ Step("alloc_usb", "alloc_scene", << "usb_is_locked" >>)
            /\ UNCHANGED << usb_if_prev, usb_config >>
    /\ UNCHANGED << settingsVars, usb_locked, arg, app_alive, file_path,
                    bad_usb_script, error, scene, call, result, script_ran,
                    usb_before >>

\* lines 208, 213-214: USB is free; the active configuration is captured
\* and the neutral one is set, and furi_check halts when that fails
Alloc_UsbGuard(set_ok) ==
    /\ ~usb_locked
    /\ Step("alloc_usb", IF set_ok THEN "alloc_scene" ELSE "halted",
            << "usb_is_locked", "usb_get_config", "usb_set_config_none" >>)
    /\ usb_if_prev' = usb_config
    /\ usb_config' = IF set_ok THEN "none" ELSE usb_config
    /\ UNCHANGED << settingsVars, usb_locked, arg, app_alive, file_path,
                    bad_usb_script, error, scene, call, result, script_ran,
                    usb_before >>

\* lines 216-221 with the test of the path inverted
Alloc_FirstScene_Inverted ==
    /\ pc = "alloc_scene"
    /\ pc' = "run"
    /\ IF file_path = ""
       THEN /\ scene' = "Work"
            /\ log' = Append(log, "next_scene_work")
            /\ UNCHANGED file_path
       ELSE /\ file_path' = BAD_USB_APP_BASE_FOLDER
            /\ scene' = "FileSelect"
            /\ log' = Append(log, "next_scene_file_select")
    /\ UNCHANGED << settingsVars, usb_locked, usb_config, arg, app_alive,
                    bad_usb_script, usb_if_prev, error, call, result,
                    script_ran, usb_before >>

\* lines 216-221: the first scene of an unlocked start
Alloc_FirstScene ==
    /\ pc = "alloc_scene"
    /\ pc' = "run"
    /\ IF file_path # ""
       THEN /\ scene' = "Work"
            /\ log' = Append(log, "next_scene_work")
            /\ UNCHANGED file_path
       ELSE /\ file_path' = BAD_USB_APP_BASE_FOLDER
            /\ scene' = "FileSelect"
            /\ log' = Append(log, "next_scene_file_select")
    /\ UNCHANGED << settingsVars, usb_locked, usb_config, arg, app_alive,
                    bad_usb_script, usb_if_prev, error, call, result,
                    script_ran, usb_before >>

(***************************************************************************)
(* The event loop: the three callbacks, and what the scenes do             *)
(***************************************************************************)
CustomEvents == {0, 1}

\* lines 24-28
bad_usb_app_custom_event_callback(event, handled) ==
    /\ pc = "run"
    /\ app_alive = "live"
    /\ pc' = "handler"
    /\ call' = [kind |-> "custom", given |-> event,
                handler |-> "scene_manager_handle_custom_event",
                event |-> event, ret |-> handled]
    /\ result' = handled
    /\ UNCHANGED << settingsVars, usb_locked, usb_config, arg, app_alive,
                    file_path, bad_usb_script, usb_if_prev, error, scene, log,
                    script_ran, usb_before >>

\* lines 40-44 with the back event always reported as consumed
bad_usb_app_back_event_callback_AlwaysTrue(handled) ==
    /\ pc = "run"
    /\ app_alive = "live"
    /\ pc' = "handler"
    /\ call' = [kind |-> "back", given |-> 0,
                handler |-> "scene_manager_handle_back_event",
                event |-> 0, ret |-> handled]
    /\ result' = TRUE
    /\ UNCHANGED << settingsVars, usb_locked, usb_config, arg, app_alive,
                    file_path, bad_usb_script, usb_if_prev, error, scene, log,
                    script_ran, usb_before >>

\* lines 40-44
bad_usb_app_back_event_callback(handled) ==
    /\ pc = "run"
    /\ app_alive = "live"
    /\ pc' = "handler"
    /\ call' = [kind |-> "back", given |-> 0,
                handler |-> "scene_manager_handle_back_event",
                event |-> 0, ret |-> handled]
    /\ result' = handled
    /\ UNCHANGED << settingsVars, usb_locked, usb_config, arg, app_alive,
                    file_path, bad_usb_script, usb_if_prev, error, scene, log,
                    script_ran, usb_before >>

\* lines 56-60
bad_usb_app_tick_event_callback ==
    /\ pc = "run"
    /\ app_alive = "live"
    /\ pc' = "handler"
    /\ call' = [kind |-> "tick", given |-> 0,
                handler |-> "scene_manager_handle_tick_event",
                event |-> 0, ret |-> FALSE]
    /\ UNCHANGED << settingsVars, usb_locked, usb_config, arg, app_alive,
                    file_path, bad_usb_script, usb_if_prev, error, scene, log,
                    result, script_ran, usb_before >>

\* the active scene's handler leaves the context alone
Scene_Idle ==
    /\ pc = "handler"
    /\ pc' = "run"
    /\ call' = NoCall
    /\ UNCHANGED << settingsVars, usb_locked, usb_config, arg, app_alive,
                    file_path, bad_usb_script, usb_if_prev, error, scene, log,
                    result, script_ran, usb_before >>

\* FileSelect: the user picks a script
Scene_SelectFile ==
    /\ pc = "handler"
    /\ scene = "FileSelect"
    /\ pc' = "run"
    /\ call' = NoCall
    /\ file_path' = DemoScript
    /\ scene' = "Work"
    /\ UNCHANGED << settingsVars, usb_locked, usb_config, arg, app_alive,
                    bad_usb_script, usb_if_prev, error, log, result,
                    script_ran, usb_before >>

\* Work and Config lead to each other, Work leads back to FileSelect
Scene_Goto(s) ==
    /\ pc = "handler"
    /\ \/ scene = "Work" /\ s \in {"Config", "FileSelect"}
       \/ scene = "Config" /\ s = "Work"
    /\ pc' = "run"
    /\ call' = NoCall
    /\ scene' = s
    /\ UNCHANGED << settingsVars, usb_locked, usb_config, arg, app_alive,
                    file_path, bad_usb_script, usb_if_prev, error, log,
                    result, script_ran, usb_before >>

\* Config: the user's choice is stored in the context
Scene_Configure(r) ==
    /\ pc = "handler"
    /\ scene = "Config"
    /\ pc' = "run"
    /\ call' = NoCall
    /\ Configure(r)
    /\ UNCHANGED << usb_locked, usb_config, arg, app_alive, file_path,
                    bad_usb_script, usb_if_prev, error, scene, log, result,
                    script_ran, usb_before >>

\* what closing a script does to USB: the engine's HID personality stays
\* or is taken down
ScriptCloseUsb(uninstall) ==
    IF uninstall /\ usb_config = "usb_hid" THEN "none" ELSE usb_config

\* Work: the script engine is opened; over USB it installs its personality
Scene_ScriptOpen ==
    /\ pc = "handler"
    /\ scene = "Work"
    /\ bad_usb_script = "NULL"
    /\ pc' = "run"
    /\ call' = NoCall
    /\ bad_usb_script' = ScriptHandle
    /\ script_ran' = TRUE
    /\ usb_config' = IF interface = BadUsbHidInterfaceUsb
                     THEN "usb_hid" ELSE usb_config
    /\ UNCHANGED << settingsVars, usb_locked, arg, app_alive, file_path,
                    usb_if_prev, error, scene, log, result, usb_before >>

\* a scene closes the script it opened
Scene_ScriptClose(uninstall) ==
    /\ pc = "handler"
    /\ bad_usb_script # "NULL"
    /\ pc' = "run"
    /\ call' = NoCall
    /\ bad_usb_script' = "NULL"
    /\ usb_config' = ScriptCloseUsb(uninstall)
    /\ UNCHANGED << settingsVars, usb_locked, arg, app_alive, file_path,
                    usb_if_prev, error, scene, log, result, script_ran,
                    usb_before >>

\* line 296: view_dispatcher_run returns once the dispatcher is stopped
Run_Return ==
    /\ Step("run", "free_script", << >>)
    /\ UNCHANGED << settingsVars, usb_locked, usb_config, arg, app_alive,
                    file_path, bad_usb_script, usb_if_prev, error, scene,
                    call, result, script_ran, usb_before >>

(***************************************************************************)
(* bad_usb_app_free                                                        *)
(***************************************************************************)
\* lines 240-243 with the handle left as it is
Free_ScriptClose_KeepHandle(uninstall) ==
    /\ pc = "free_script"
    /\ pc' = "free_views"
    /\ IF bad_usb_script # "NULL"
       THEN /\ log' = Append(log, "bad_usb_script_close")
            /\ usb_config' = ScriptCloseUsb(uninstall)
       ELSE /\ UNCHANGED << log, usb_config >>
    /\ UNCHANGED << settingsVars, usb_locked, arg, app_alive, file_path,
                    bad_usb_script, usb_if_prev, error, scene, call, result,
                    script_ran, usb_before >>

\* lines 240-243: an open script is closed and the handle set to NULL
Free_ScriptClose(uninstall) ==
    /\ pc = "free_script"
    /\ pc' = "free_views"
    /\ IF bad_usb_script # "NULL"
       THEN /\ log' = Append(log, "bad_usb_script_close")
            /\ bad_usb_script' = "NULL"
            /\ usb_config' = ScriptCloseUsb(uninstall)
       ELSE /\ UNCHANGED << log, bad_usb_script, usb_config >>
    /\ UNCHANGED << settingsVars, usb_locked, arg, app_alive, file_path,
                    usb_if_prev, error, scene, call, result, script_ran,
                    usb_before >>

\* lines 246-255
Free_Views ==
    /\ Step("free_views", "free_dispatcher",
            << "remove_view_work", "bad_usb_view_free",
               "remove_view_error", "widget_free",
               "remove_view_config", "var_item_list_free" >>)
    /\ UNCHANGED << settingsVars, usb_locked, usb_config, arg, app_alive,
                    file_path, bad_usb_script, usb_if_prev, error, scene,
                    call, result, script_ran, usb_before >>

\* lines 258-264 with the records closed before the dispatcher and the
\* scene manager are freed
Free_Dispatcher_RecordsFirst ==
    /\ Step("free_dispatcher", "free_save",
            << "close_gui", "close_notification", "close_dialogs",
               "view_dispatcher_free", "scene_manager_free" >>)
    /\ scene' = "none"
    /\ UNCHANGED << settingsVars, usb_locked, usb_config, arg, app_alive,
                    file_path, bad_usb_script, usb_if_prev, error, call,
                    result, script_ran, usb_before >>

\* lines 258-259
Free_Dispatcher ==
    /\ Step("free_dispatcher", "free_records",
            << "view_dispatcher_free", "scene_manager_free" >>)
    /\ scene' = "none"
    /\ UNCHANGED << settingsVars, usb_locked, usb_config, arg, app_alive,
                    file_path, bad_usb_script, usb_if_prev, error, call,
                    result, script_ran, usb_before >>

\* lines 262-267 with the settings saved before the records are closed
Free_CloseRecords_SaveFirst ==
    /\ Step("free_records", "free_strings",
            << "save_settings", "close_gui", "close_notification",
               "close_dialogs" >>)
    /\ \E o \in SaveOutcomes : Save(o)
    /\ UNCHANGED << usb_locked, usb_config, arg, app_alive, file_path,
                    bad_usb_script, usb_if_prev, error, scene, call, result,
                    script_ran, usb_before >>

\* lines 262-264
Free_CloseRecords ==
    /\ Step("free_records", "free_save",
            << "close_gui", "close_notification", "close_dialogs" >>)
    /\ UNCHANGED << settingsVars, usb_locked, usb_config, arg, app_alive,
                    file_path, bad_usb_script, usb_if_prev, error, scene,
                    call, result, script_ran, usb_before >>

\* line 267 with the save made only when the run opened a script
Free_SaveSettings_OnlyAfterWork(outcome) ==
    /\ pc = "free_save"
    /\ pc' = "free_strings"
    /\ IF script_ran
       THEN /\ log' = Append(log, "save_settings")
            /\ Save(outcome)
       ELSE /\ UNCHANGED << log, settingsVars >>
    /\ UNCHANGED << usb_locked, usb_config, arg, app_alive, file_path,
                    bad_usb_script, usb_if_prev, error, scene, call, result,
                    script_ran, usb_before >>

\* line 267
Free_SaveSettings(outcome) ==
    /\ Step("free_save", "free_strings", << "save_settings" >>)
    /\ Save(outcome)
    /\ UNCHANGED << usb_locked, usb_config, arg, app_alive, file_path,
                    bad_usb_script, usb_if_prev, error, scene, call, result,
                    script_ran, usb_before >>

\* lines 270-271
Free_Strings ==
    /\ Step("free_strings", "free_usb", << "free_strings" >>)
    /\ UNCHANGED << settingsVars, usb_locked, usb_config, arg, app_alive,
                    file_path, bad_usb_script, usb_if_prev, error, scene,
                    call, result, script_ran, usb_before >>

\* lines 274-276 with the result of set_config not checked
Free_UsbRestore_Unchecked(set_ok) ==
    /\ pc = "free_usb"
    /\ pc' = "free_app"
    /\ IF usb_if_prev # "none"
       THEN /\ log' = Append(log, "usb_set_config_prev")
            /\ usb_config' = IF set_ok THEN usb_if_prev ELSE usb_config
       ELSE /\ UNCHANGED << log, usb_config >>
    /\ UNCHANGED << settingsVars, usb_locked, arg, app_alive, file_path,
                    bad_usb_script, usb_if_prev, error, scene, call, result,
                    script_ran, usb_before >>

\* lines 274-276 with the neutral configuration set instead of the captured
Free_UsbRestore_Neutral(set_ok) ==
    /\ pc = "free_usb"
    /\ IF usb_if_prev # "none"
       THEN /\ log' = Append(log, "usb_set_config_prev")
            /\ usb_config' = IF set_ok THEN "none" ELSE usb_config
            /\ pc' = IF set_ok THEN "free_app" ELSE "halted"
       ELSE /\ pc' = "free_app"
            /\ UNCHANGED << log, usb_config >>
    /\ UNCHANGED << settingsVars, usb_locked, arg, app_alive, file_path,
                    bad_usb_script, usb_if_prev, error, scene, call, result,
                    script_ran, usb_before >>

\* lines 274-276 without the test of usb_if_prev
Free_UsbRestore_Always(set_ok) ==
    /\ pc = "free_usb"
    /\ log' = Append(log, "usb_set_config_prev")
    /\ usb_config' = IF set_ok THEN usb_if_prev ELSE usb_config
    /\ pc' = IF set_ok THEN "free_app" ELSE "halted"
    /\ UNCHANGED << settingsVars, usb_locked, arg, app_alive, file_path,
                    bad_usb_script, usb_if_prev, error, scene, call, result,
                    script_ran, usb_before >>

\* lines 274-276: a captured configuration is set again; furi_check halts
\* when that fails
Free_UsbRestore(set_ok) ==
    /\ pc = "free_usb"
    /\ IF usb_if_prev # "none"
       THEN /\ log' = Append(log, "usb_set_config_prev")
            /\ usb_config' = IF set_ok THEN usb_if_prev ELSE usb_config
            /\ pc' = IF set_ok THEN "free_app" ELSE "halted"
       ELSE /\ pc' = "free_app"
            /\ UNCHANGED << log, usb_config >>
    /\ UNCHANGED << settingsVars, usb_locked, arg, app_alive, file_path,
                    bad_usb_script, usb_if_prev, error, scene, call, result,
                    script_ran, usb_before >>

\* line 279
Free_App ==
    /\ Step("free_app", "return", << "free" >>)
    /\ app_alive' = "freed"
    /\ UNCHANGED << settingsVars, usb_locked, usb_config, arg, file_path,
                    bad_usb_script, usb_if_prev, error, scene, call, result,
                    script_ran, usb_before >>

\* line 302: bad_usb_app returns 0
App_Return ==
    /\ Step("return", "done", << >>)
    /\ UNCHANGED << settingsVars, usb_locked, usb_config, arg, app_alive,
                    file_path, bad_usb_script, usb_if_prev, error, scene,
                    call, result, script_ran, usb_before >>

Next ==
    \/ Alloc_Begin
    \/ Alloc_LoadSettings
    \/ Alloc_OpenRecords
    \/ Alloc_Dispatcher
    \/ Alloc_Views
    \/ Alloc_AttachToGui
    \/ Alloc_UsbLocked
    \/ \E ok \in BOOLEAN : Alloc_UsbGuard(ok)
    \/ Alloc_FirstScene
    \/ \E e \in CustomEvents, h \in BOOLEAN :
           bad_usb_app_custom_event_callback(e, h)
    \/ \E h \in BOOLEAN : bad_usb_app_back_event_callback(h)
    \/ bad_usb_app_tick_event_callback
    \/ Scene_Idle
    \/ Scene_SelectFile
    \/ \E s \in {"FileSelect", "Config", "Work"} : Scene_Goto(s)
    \/ \E r \in UserRecords : Scene_Configure(r)
    \/ Scene_ScriptOpen
    \/ \E u \in BOOLEAN : Scene_ScriptClose(u)
    \/ Run_Return
    \/ \E u \in BOOLEAN : Free_ScriptClose(u)
    \/ Free_Views
    \/ Free_Dispatcher
    \/ Free_CloseRecords
    \/ \E o \in SaveOutcomes : Free_SaveSettings(o)
    \/ Free_Strings
    \/ \E ok \in BOOLEAN : Free_UsbRestore(ok)
    \/ Free_App
    \/ App_Return

Spec == Init /\ [][Next]_vars

(***************************************************************************)
(* Properties of the settings codec (checked under SpecCodec)              *)
(***************************************************************************)
HasKey(f, k) == \E i \in 1..Len(f.data) : f.data[i].key = k

\* position and text of the first line with the key
PosOf(f, k) ==
    CHOOSE i \in 1..Len(f.data) :
        /\ f.data[i].key = k
        /\ \A j \in 1..(i - 1) : f.data[j].key # k

TextOf(f, k) == f.data[PosOf(f, k)].val

\* the ways a settings file is malformed: missing, no header, another tag,
\* another version, no layout, no interface (a truncated file lacks the
\* fields after the cut)
Malformed(f) ==
    \/ ~f.exists
    \/ ~HasKey(f, "Filetype")
    \/ ~HasKey(f, "Version")
    \/ TextOf(f, "Filetype") # BAD_USB_SETTINGS_FILE_TYPE
    \/ TextOf(f, "Version") # "1"
    \/ ~HasKey(f, "layout")
    \/ ~HasKey(f, "interface")

\* the header is the expected one and the layout follows it
HeaderAndLayout(f) ==
    /\ f.exists
    /\ HasKey(f, "Filetype") /\ HasKey(f, "Version") /\ HasKey(f, "layout")
    /\ TextOf(f, "Filetype") = BAD_USB_SETTINGS_FILE_TYPE
    /\ TextOf(f, "Version") = "1"
    /\ PosOf(f, "Filetype") < PosOf(f, "Version")
    /\ PosOf(f, "Version") < PosOf(f, "layout")

\* a structurally valid record: header, layout, then an interface of 0 or 1
StructurallyValid(f) ==
    /\ HeaderAndLayout(f)
    /\ HasKey(f, "interface")
    /\ PosOf(f, "layout") < PosOf(f, "interface")
    /\ TextOf(f, "interface") \in {"0", "1"}

\* the layout resource exists and has exactly 256 bytes
GoodLayout(path) ==
    /\ path \in DOMAIN layout_files
    /\ layout_files[path] = 256

\* C1: after a load of a malformed settings file (missing, header
\* unreadable, other tag, other version, layout or interface missing,
\* truncated) the record is exactly {default layout, USB}.
C1_MalformedYieldsDefaults ==
    (op = "load" /\ Malformed(settings_file)) => (Record = DefaultRecord)

\* a load of a file that is complete and readable but of version 2, whose
\* layout resource is fine
C1_Witness ==
    /\ op = "load"
    /\ settings_file.exists
    /\ Len(settings_file.data) = 4
    /\ settings_file.data[1] = Field("Filetype", BAD_USB_SETTINGS_FILE_TYPE)
    /\ settings_file.data[2] = Field("Version", "2")
    /\ settings_file.data[3] = Field("layout", CustomLayout)
    /\ settings_file.data[4] = Field("interface", "1")
    /\ GoodLayout(CustomLayout)
    /\ Record = DefaultRecord

\* C2: after a load of a structurally valid record whose layout resource
\* cannot be stat'ed or is not exactly 256 bytes, the layout is the default
\* one and the interface is the stored one.
C2_BadLayoutKeepsInterface ==
    (/\ op = "load"
     /\ StructurallyValid(settings_file)
     /\ ~GoodLayout(TextOf(settings_file, "layout")))
    => /\ keyboard_layout = BAD_USB_SETTINGS_DEFAULT_LAYOUT
       /\ (TextOf(settings_file, "interface") = "0") => (interface = 0)
       /\ (TextOf(settings_file, "interface") = "1") => (interface = 1)

\* a load of a valid record with interface BLE whose layout is one byte long
C2_Witness ==
    /\ op = "load"
    /\ StructurallyValid(settings_file)
    /\ TextOf(settings_file, "layout") = CustomLayout
    /\ CustomLayout \in DOMAIN layout_files
    /\ layout_files[CustomLayout] = 257
    /\ TextOf(settings_file, "interface") = "1"
    /\ keyboard_layout = BAD_USB_SETTINGS_DEFAULT_LAYOUT
    /\ interface = BadUsbHidInterfaceBle

\* C3: after a load of a file with the right header, a layout naming an
\* existing 256-byte resource and an interface above 1, the record is the
\* full default: the layout read from the file is not kept.
C3_OutOfRangeInterfaceRejectsAll ==
    (/\ op = "load"
     /\ HeaderAndLayout(settings_file)
     /\ GoodLayout(TextOf(settings_file, "layout"))
     /\ HasKey(settings_file, "interface")
     /\ TextOf(settings_file, "interface") \in {"2", "3"})
    => (Record = DefaultRecord)

\* a load of such a file whose layout is not the default one
C3_Witness ==
    /\ op = "load"
    /\ HeaderAndLayout(settings_file)
    /\ TextOf(settings_file, "layout") = CustomLayout
    /\ GoodLayout(CustomLayout)
    /\ HasKey(settings_file, "interface")
    /\ PosOf(settings_file, "layout") < PosOf(settings_file, "interface")
    /\ TextOf(settings_file, "interface") = "2"
    /\ Record = DefaultRecord

\* C4: a load that follows a save all of whose writes succeeded yields the
\* saved record, when its interface is USB or BLE and its layout names a
\* resource of exactly 256 bytes at the time of the load.
C4_RoundTrip ==
    \A r \in saved :
        (/\ op = "load"
         /\ r.interface \in {BadUsbHidInterfaceUsb, BadUsbHidInterfaceBle}
         /\ GoodLayout(r.keyboard_layout))
        => (Record = r)

\* a load after a complete save of {the other layout, BLE}
C4_Witness ==
    /\ op = "load"
    /\ saved = {[keyboard_layout |-> CustomLayout,
                 interface |-> BadUsbHidInterfaceBle]}
    /\ GoodLayout(CustomLayout)
    /\ keyboard_layout = CustomLayout
    /\ interface = BadUsbHidInterfaceBle

(***************************************************************************)
(* Properties of construction and teardown (checked under Spec)            *)
(***************************************************************************)
Count(seq, x) == Cardinality({i \in 1..Len(seq) : seq[i] = x})

Called(x) == \E i \in 1..Len(log) : log[i] = x

\* no call x was made after a call y
Before(x, y) ==
    \A j \in 1..Len(log) :
        (log[j] = y) => \A i \in j..Len(log) : log[i] # x

AllocPcs == {"start", "alloc_load", "alloc_records", "alloc_dispatcher",
             "alloc_views", "alloc_attach", "alloc_usb", "alloc_scene"}

RunPcs == {"run", "handler"}

FreePcs == {"free_script", "free_views", "free_dispatcher", "free_records",
            "free_save", "free_strings", "free_usb", "free_app"}

\* furi_check halted the thread inside bad_usb_app_free
HaltedInFree == pc = "halted" /\ Called("free_strings")

\* bad_usb_app_alloc returned
Constructed == pc \in RunPcs \cup FreePcs \cup {"return", "done"} \/ HaltedInFree

\* bad_usb_app_free returned
TornDown == pc \in {"return", "done"}

SceneCalls == {"next_scene_error", "next_scene_work", "next_scene_file_select"}

ScenesEntered == Cardinality({i \in 1..Len(log) : log[i] \in SceneCalls})

UsbCalls == {"usb_get_config", "usb_set_config_none", "usb_set_config_prev"}

\* C5: with USB locked at construction, whatever the entry argument, the
\* first scene is Error with reason "close remote session", construction
\* calls neither get_config nor set_config and records no prior
\* configuration, teardown calls no set_config, and the USB configuration
\* stays what it was before the run.
C5_LockedStartLeavesUsbAlone ==
    usb_locked =>
        /\ \A c \in UsbCalls : ~Called(c)
        /\ usb_if_prev = "none"
        /\ usb_config = usb_before
        /\ pc # "halted"
        /\ Constructed => /\ error = "BadUsbAppErrorCloseRpc"
                          /\ Called("next_scene_error")
                          /\ ScenesEntered = 1
        /\ (pc \in RunPcs) => (scene = "Error")

\* a locked start with a script path that ran to the end, over a
\* configuration that was active before
C5_Witness ==
    /\ usb_locked
    /\ arg = DemoScript
    /\ usb_before = "usb_cdc"
    /\ pc = "done"
    /\ usb_config = "usb_cdc"

\* C6: when an unlocked construction completes, the scene is FileSelect and
\* file_path the base folder if the entry argument is NULL or empty, and the
\* scene is Work and file_path the argument otherwise; a completed
\* construction has entered exactly one scene.
C6_InitialScene ==
    /\ [](Constructed => (ScenesEntered = 1))
    /\ [][(pc \in AllocPcs /\ pc' = "run" /\ ~usb_locked) =>
            IF arg = NullArg \/ arg = ""
            THEN /\ scene' = "FileSelect"
                 /\ file_path' = BAD_USB_APP_BASE_FOLDER
                 /\ Count(log', "next_scene_file_select") = 1
            ELSE /\ scene' = "Work"
                 /\ file_path' = arg
                 /\ Count(log', "next_scene_work") = 1]_vars

\* an unlocked start with the empty string, in FileSelect at the base folder
C6_Witness ==
    /\ ~usb_locked
    /\ arg = ""
    /\ pc = "run"
    /\ scene = "FileSelect"
    /\ file_path = BAD_USB_APP_BASE_FOLDER
    /\ log[Len(log)] = "next_scene_file_select"

\* C7: every execution of bad_usb_app_free saves the settings exactly once,
\* whatever the run was, and the save is done before the USB restoration is
\* attempted, so also when the restoration fails.
C7_SaveExactlyOnce ==
    /\ Count(log, "save_settings") <= 1
    /\ (TornDown \/ HaltedInFree) =>
           (Count(log, "save_settings") = 1 /\ op = "save")
    /\ Called("usb_set_config_prev") => Called("save_settings")
    /\ Before("save_settings", "usb_set_config_prev")

\* a run that never opened a script and whose USB restoration failed
C7_Witness ==
    /\ HaltedInFree
    /\ ~script_ran
    /\ Called("usb_set_config_prev")
    /\ usb_config # usb_if_prev
    /\ Count(log, "save_settings") = 1

\* C8 as stated: after the teardown of an unlocked start the active USB
\* configuration is the one from before bad_usb_app_alloc, also when that
\* was "none"; and from construction to the first script it is "none".
C8_RestoresPriorConfiguration ==
    /\ (~usb_locked /\ TornDown) => (usb_config = usb_before)
    /\ (~usb_locked /\ pc \in RunPcs \cup {"alloc_scene"} /\ ~script_ran)
           => (usb_config = "none")

\* C8, amended: after the teardown of an unlocked start the active USB
\* configuration is the one from before bad_usb_app_alloc when that was not
\* "none"; when it was "none" teardown calls no set_config and the
\* configuration is "none" or what the script engine left installed; and
\* from construction to the first script it is "none".
C8_RestoresCapturedConfiguration ==
    /\ (~usb_locked /\ TornDown /\ usb_before # "none")
           => (usb_config = usb_before)
    /\ (~usb_locked /\ usb_before = "none")
           => /\ ~Called("usb_set_config_prev")
              /\ TornDown => \/ usb_config = "none"
                             \/ script_ran /\ usb_config = "usb_hid"
    /\ (~usb_locked /\ pc \in RunPcs \cup {"alloc_scene"} /\ ~script_ran)
           => (usb_config = "none")

\* an unlocked run over an active configuration that opened a script and
\* ended with that configuration active again
C8_Witness ==
    /\ ~usb_locked
    /\ usb_before = "usb_cdc"
    /\ script_ran
    /\ Called("bad_usb_script_close")
    /\ pc = "done"
    /\ usb_config = "usb_cdc"

\* C9: when the restoration of the previous USB configuration fails the
\* thread halts there: teardown goes on only with the captured
\* configuration active, a halted thread takes no further step, its
\* context is not freed and bad_usb_app does not return.
C9_FailedRestoreHalts ==
    /\ []((usb_if_prev # "none" /\ (pc \in {"free_app", "return", "done"}
                                    \/ app_alive = "freed"))
            => (usb_config = usb_if_prev))
    /\ []((pc = "halted") => (app_alive = "live"))
    /\ [][pc # "halted"]_vars
    /\ [][(pc = "free_usb" /\ usb_if_prev # "none"
           /\ usb_config' # usb_if_prev) => (pc' = "halted")]_vars

\* the thread halted in teardown with the old configuration not active
C9_Witness ==
    /\ HaltedInFree
    /\ Called("usb_set_config_prev")
    /\ usb_if_prev = "usb_cdc"
    /\ usb_config # usb_if_prev
    /\ app_alive = "live"
    /\ ~Called("free")

FreeCalls == {"remove_view_work", "bad_usb_view_free", "remove_view_error",
              "widget_free", "remove_view_config", "var_item_list_free",
              "view_dispatcher_free", "scene_manager_free", "close_gui",
              "close_notification", "close_dialogs", "save_settings",
              "free_strings", "usb_set_config_prev", "free"}

\* C10: bad_usb_app_free closes an open script handle exactly once, before
\* every other teardown step, and sets it to NULL; it does not call close
\* when no handle is open.  Over a run this file calls close at most once,
\* and no handle is open once teardown is past its first step.
C10_ScriptClosedFirst ==
    /\ [](Count(log, "bad_usb_script_close") <= 1)
    /\ [](\A j \in 1..Len(log) :
            (log[j] = "bad_usb_script_close") =>
                \A i \in 1..j : log[i] \notin FreeCalls)
    /\ []((pc \in (FreePcs \ {"free_script"}) \cup {"return", "done"}
           \/ HaltedInFree) => (bad_usb_script = "NULL"))
    /\ [][(pc = "free_script") =>
            IF bad_usb_script # "NULL"
            THEN /\ log' = Append(log, "bad_usb_script_close")
                 /\ bad_usb_script' = "NULL"
            ELSE log' = log /\ bad_usb_script' = "NULL"]_vars

\* a run that ended with the script open, which teardown closed
C10_Witness ==
    /\ pc = "done"
    /\ Count(log, "bad_usb_script_close") = 1
    /\ bad_usb_script = "NULL"

\* the USB calls of bad_usb_app_alloc, in the order they were made
AllocUsbCalls ==
    SelectSeq(log, LAMBDA c : c \in {"usb_is_locked", "usb_get_config",
                                     "usb_set_config_none"})

\* the first scene and file_path as the lock status and the entry argument
\* alone determine them
SceneFor(locked, a) ==
    IF locked THEN "Error"
    ELSE IF a = NullArg \/ a = "" THEN "FileSelect" ELSE "Work"

FilePathFor(locked, a) ==
    IF a # NullArg /\ a # "" THEN a
    ELSE IF locked THEN "" ELSE BAD_USB_APP_BASE_FOLDER

\* C11: the first scene, file_path and the USB calls of bad_usb_app_alloc
\* are determined by the USB lock status and the entry argument alone,
\* whatever the settings file holds and whatever the load made of it; the
\* load changes nothing of the context but keyboard_layout and interface.
C11_SettingsDoNotReachController ==
    /\ []((pc \in {"alloc_scene", "halted"} \/ Constructed) =>
            (AllocUsbCalls =
                IF usb_locked THEN << "usb_is_locked" >>
                ELSE << "usb_is_locked", "usb_get_config",
                        "usb_set_config_none" >>))
    /\ [][(pc \in AllocPcs /\ pc' = "run") =>
            /\ scene' = SceneFor(usb_locked, arg)
            /\ file_path' = FilePathFor(usb_locked, arg)]_vars
    /\ [][(pc = "alloc_load") =>
            UNCHANGED << file_path, scene, error, usb_if_prev, usb_config,
                         bad_usb_script, app_alive >>]_vars

\* a construction that loaded a record other than the default one and one
\* that found no settings file, each ending as the argument alone says
C11_Witness ==
    /\ pc = "run"
    /\ call = NoCall
    /\ ~usb_locked
    /\ arg = DemoScript
    /\ scene = "Work"
    /\ file_path = DemoScript
    /\ settings_file.exists
    /\ keyboard_layout = CustomLayout
    /\ interface = BadUsbHidInterfaceBle
    /\ ~script_ran

\* the releases of views, dispatcher, scene manager and services
ReleaseCalls == {"remove_view_work", "bad_usb_view_free", "remove_view_error",
                 "widget_free", "remove_view_config", "var_item_list_free",
                 "view_dispatcher_free", "scene_manager_free", "close_gui",
                 "close_notification", "close_dialogs"}

\* position of the only call x in the log
CallPos(x) == CHOOSE i \in 1..Len(log) : log[i] = x

\* C12: in bad_usb_app_free the settings are saved only after the three
\* views are removed and freed, the dispatcher and the scene manager are
\* freed and the three services are closed; the USB restoration comes after
\* the save and after every other release, and the free of the context is
\* the very next call after it.
C12_TeardownOrder ==
    /\ Called("save_settings") =>
           \A c \in ReleaseCalls : Called(c) /\ Before(c, "save_settings")
    /\ Called("usb_set_config_prev") =>
           \A c \in ReleaseCalls \cup {"save_settings", "free_strings"} :
               Called(c) /\ Before(c, "usb_set_config_prev")
    /\ (Called("usb_set_config_prev") /\ Called("free")) =>
           (CallPos("free") = CallPos("usb_set_config_prev") + 1)
    /\ Called("free") =>
           \A c \in ReleaseCalls \cup {"save_settings", "free_strings"} :
               Called(c) /\ Before(c, "free")

\* a teardown that restored a captured configuration and freed the context
C12_Witness ==
    /\ pc = "done"
    /\ Called("save_settings")
    /\ Called("usb_set_config_prev")
    /\ log[Len(log)] = "free"
    /\ log[Len(log) - 1] = "usb_set_config_prev"
    /\ log[Len(log) - 2] = "free_strings"
    /\ log[Len(log) - 3] = "save_settings"
    /\ log[Len(log) - 4] = "close_dialogs"

OpenCalls == {"open_gui", "open_notification", "open_dialogs"}

ViewAllocCalls == {"widget_alloc", "var_item_list_alloc", "bad_usb_view_alloc"}

ViewAddCalls == {"add_view_error", "add_view_config", "add_view_work"}

\* every call of the set was made, and none of them after the call y
AllBefore(xs, y) == \A x \in xs : Called(x) /\ Before(x, y)

\* C13: in bad_usb_app_alloc the three services are opened before any view
\* is allocated, the three views are allocated and added before the
\* dispatcher is attached to the GUI, a scene is entered only after the
\* lock status was queried (and, unlocked, after the configuration was
\* captured and the neutral one set), and the settings are loaded before
\* all of these.
C13_ConstructionOrder ==
    /\ \A v \in ViewAllocCalls : Called(v) => AllBefore(OpenCalls, v)
    /\ Called("attach_to_gui") =>
           AllBefore(ViewAllocCalls \cup ViewAddCalls, "attach_to_gui")
    /\ \A n \in SceneCalls :
           Called(n) =>
               /\ AllBefore({"usb_is_locked", "attach_to_gui"}, n)
               /\ ~usb_locked =>
                      /\ AllBefore({"usb_get_config", "usb_set_config_none"}, n)
                      /\ Before("usb_is_locked", "usb_get_config")
                      /\ Before("usb_get_config", "usb_set_config_none")
    /\ \A c \in OpenCalls \cup {"usb_is_locked"} :
           Called(c) => AllBefore({"load_settings"}, c)

\* a completed unlocked construction: the whole sequence of its calls
C13_Witness ==
    /\ pc = "run"
    /\ ~usb_locked
    /\ log = << "malloc", "load_settings",
                "open_gui", "open_notification", "open_dialogs",
                "view_dispatcher_alloc", "scene_manager_alloc",
                "set_callbacks",
                "widget_alloc", "add_view_error",
                "var_item_list_alloc", "add_view_config",
                "bad_usb_view_alloc", "add_view_work",
                "attach_to_gui",
                "usb_is_locked", "usb_get_config", "usb_set_config_none",
                "next_scene_work" >>

\* the resource a call acquires or releases
AcquireCalls == {"open_gui", "open_notification", "open_dialogs",
                 "view_dispatcher_alloc", "scene_manager_alloc",
                 "widget_alloc", "var_item_list_alloc", "bad_usb_view_alloc"}

FreeingCalls == {"bad_usb_view_free", "widget_free", "var_item_list_free",
                 "view_dispatcher_free", "scene_manager_free",
                 "close_gui", "close_notification", "close_dialogs"}

ResourceOf(c) ==
    CASE c \in {"open_gui", "close_gui"} -> "gui"
      [] c \in {"open_notification", "close_notification"} -> "notification"
      [] c \in {"open_dialogs", "close_dialogs"} -> "dialogs"
      [] c \in {"view_dispatcher_alloc", "view_dispatcher_free"}
             -> "view_dispatcher"
      [] c \in {"scene_manager_alloc", "scene_manager_free"} -> "scene_manager"
      [] c \in {"widget_alloc", "widget_free"} -> "widget"
      [] c \in {"var_item_list_alloc", "var_item_list_free"} -> "var_item_list"
      [] OTHER -> "bad_usb_view"

\* services, then dispatcher and scene manager, then views
GroupOf(r) ==
    CASE r \in {"gui", "notification", "dialogs"} -> "services"
      [] r \in {"view_dispatcher", "scene_manager"} -> "controller"
      [] OTHER -> "views"

MapSeq(seq, Op(_)) == [i \in 1..Len(seq) |-> Op(seq[i])]

Reverse(seq) == [i \in 1..Len(seq) |-> seq[Len(seq) + 1 - i]]

\* the resources in the order acquired, and in the order released
Acquired == MapSeq(SelectSeq(log, LAMBDA c : c \in AcquireCalls), ResourceOf)

Released == MapSeq(SelectSeq(log, LAMBDA c : c \in FreeingCalls), ResourceOf)

\* the releases of lines 246-264 are all done
ReleasesDone ==
    pc \in {"free_save", "free_strings", "free_usb", "free_app", "return",
            "done"} \/ HaltedInFree

\* C14 as stated: apart from the save and the USB restoration, the
\* resources are released in exactly the reverse of the order in which
\* they were acquired.
C14_ExactMirror == ReleasesDone => (Released = Reverse(Acquired))

\* C14, amended: the resources are released group by group in the reverse
\* of the order in which the groups were acquired (views, then dispatcher
\* and scene manager, then services); inside the groups the order is Work
\* view, Error widget, Config list; dispatcher, scene manager; GUI,
\* notification, dialogs.
C14_GroupMirror ==
    ReleasesDone =>
        /\ MapSeq(Released, GroupOf) = Reverse(MapSeq(Acquired, GroupOf))
        /\ Released = << "bad_usb_view", "widget", "var_item_list",
                         "view_dispatcher", "scene_manager",
                         "gui", "notification", "dialogs" >>

\* a finished teardown, with the eight resources acquired and released
C14_Witness ==
    /\ pc = "done"
    /\ Acquired = << "gui", "notification", "dialogs", "view_dispatcher",
                     "scene_manager", "widget", "var_item_list",
                     "bad_usb_view" >>
    /\ Len(Released) = 8
    /\ Released[1] = "bad_usb_view"
    /\ Released[8] = "dialogs"

\* the lines of a full record, in order, for a layout and an interface text
FullRecord(layout, itext) ==
    << Field("Filetype", BAD_USB_SETTINGS_FILE_TYPE), Field("Version", "1"),
       Field("layout", layout), Field("interface", itext) >>

IsPrefix(p, q) == Len(p) <= Len(q) /\ \A i \in 1..Len(p) : p[i] = q[i]

\* the file holds the first lines of a full record and not all of them
StrictPrefixFile(f) ==
    /\ f.exists
    /\ Len(f.data) < 4
    /\ \E l \in LayoutPaths : IsPrefix(f.data, FullRecord(l, "0"))

\* C15: a save leaves the file untouched (the open failed) or holding the
\* lines of the record in the order header, layout, interface, cut at the
\* first failed write and with nothing after it, that is a prefix of the
\* full record; the save changes nothing else; a load of a strict prefix
\* yields the full default record.
C15_SaveIsBestEffortPrefix ==
    /\ [][(op' = "save") =>
            /\ \/ settings_file' = settings_file
               \/ /\ settings_file'.exists
                  /\ IsPrefix(settings_file'.data,
                              FullRecord(keyboard_layout,
                                         IF interface = 0 THEN "0" ELSE "1"))
            /\ UNCHANGED << keyboard_layout, interface, layout_files >>]_vars
    /\ []((op = "load" /\ StrictPrefixFile(settings_file)) =>
            (Record = DefaultRecord))

\* a load of what a save of a record with the default layout left when the
\* write of the interface failed
C15_Witness ==
    /\ op = "load"
    /\ settings_file.exists
    /\ settings_file.data =
           << Field("Filetype", BAD_USB_SETTINGS_FILE_TYPE),
              Field("Version", "1"),
              Field("layout", BAD_USB_SETTINGS_DEFAULT_LAYOUT) >>
    /\ saved = {}
    /\ Record = DefaultRecord

\* C16: a run loads the settings once, in construction and before the lock
\* status is queried, and saves them once, in teardown; apart from the load
\* itself no step of this file (construction, the three callbacks, teardown)
\* changes keyboard_layout or interface, so with no user configuration in
\* between the record a complete save writes is the record the load made
\* of the settings file.
C16_SettingsLifecycle ==
    /\ [](/\ Count(log, "load_settings") <= 1
          /\ Count(log, "save_settings") <= 1
          /\ (pc \notin {"start", "alloc_load"}) =>
                 (Count(log, "load_settings") = 1)
          /\ Before("load_settings", "usb_is_locked")
          /\ Called("usb_is_locked") => Called("load_settings")
          /\ (TornDown \/ HaltedInFree) => (Count(log, "save_settings") = 1)
          /\ Called("save_settings") => (pc \notin AllocPcs \cup RunPcs))
    /\ [][(pc \notin {"alloc_load", "handler"}) =>
            UNCHANGED << keyboard_layout, interface >>]_vars
    /\ [][(pc = "free_save" /\ op = "load" /\ saved' # {}) =>
            /\ saved' = {bad_usb_load_settings(settings_file, layout_files)}
            /\ settings_file'.exists
            /\ settings_file'.data =
                   FullRecord(keyboard_layout,
                              IF interface = 0 THEN "0" ELSE "1")]_vars

\* a run with USB locked, hence without any configuration scene, that
\* loaded a record other than the default one and saved it again
C16_Witness ==
    /\ pc = "done"
    /\ usb_locked
    /\ Count(log, "load_settings") = 1
    /\ Count(log, "save_settings") = 1
    /\ saved = {[keyboard_layout |-> CustomLayout,
                 interface |-> BadUsbHidInterfaceBle]}
    /\ settings_file.data = FullRecord(CustomLayout, "1")

\* C17: right after a load, whatever the settings file and the layout
\* resources are, interface is USB or BLE and keyboard_layout is the
\* default path or the path of an existing resource of exactly 256 bytes.
C17_PostLoadInvariant ==
    (op = "load") =>
        /\ interface \in {0, 1}
        /\ \/ keyboard_layout = BAD_USB_SETTINGS_DEFAULT_LAYOUT
           \/ /\ keyboard_layout \in DOMAIN layout_files
              /\ layout_files[keyboard_layout] = 256

\* a load that kept another layout of 256 bytes, with BLE, while the
\* default layout resource does not exist
C17_Witness ==
    /\ op = "load"
    /\ keyboard_layout = CustomLayout
    /\ interface = 1
    /\ DOMAIN layout_files = {CustomLayout}
    /\ layout_files[CustomLayout] = 256

\* the scene-manager handler that belongs to a callback
HandlerOf(kind) ==
    CASE kind = "custom" -> "scene_manager_handle_custom_event"
      [] kind = "back" -> "scene_manager_handle_back_event"
      [] OTHER -> "scene_manager_handle_tick_event"

\* C18: a callback (custom event, back event, tick) makes one call, to the
\* scene-manager handler that belongs to it and with the event it was
\* given; the custom and the back callback return what the handler
\* returned; the callback changes no field of the context, nothing of USB
\* and nothing in storage, and calls nothing else.
C18_PureDispatch ==
    [][(pc = "run" /\ pc' = "handler") =>
         /\ call'.kind \in {"custom", "back", "tick"}
         /\ call'.handler = HandlerOf(call'.kind)
         /\ call'.event = call'.given
         /\ (call'.kind \in {"custom", "back"}) => (result' = call'.ret)
         /\ UNCHANGED << file_path, keyboard_layout, interface,
                         bad_usb_script, usb_if_prev, error, app_alive,
                         usb_config, usb_locked, settings_file, layout_files,
                         scene, log, op, saved >>]_vars

\* the custom callback was given event 1 while a script was open, the
\* handler did not consume it, and the callback returned that
C18_Witness ==
    /\ pc = "handler"
    /\ call.kind = "custom"
    /\ call.given = 1
    /\ call.event = 1
    /\ call.ret = FALSE
    /\ result = FALSE
    /\ bad_usb_script # "NULL"
    /\ scene = "Work"

\* C19: teardown calls set_config at most once, and exactly when
\* usb_if_prev is not NULL, with that reference; usb_if_prev is written
\* only where construction queries the lock; so an unlocked start that
\* found no active configuration ends, like a locked start, without a
\* set_config call in teardown.
C19_RestoreOnlyCapturedReference ==
    /\ [](Count(log, "usb_set_config_prev") <= 1)
    /\ []((usb_locked \/ usb_before = "none") =>
            ~Called("usb_set_config_prev"))
    /\ []((~usb_locked /\ usb_before # "none"
           /\ (pc \in {"free_app", "return", "done"} \/ HaltedInFree)) =>
            Called("usb_set_config_prev"))
    /\ [][(pc # "alloc_usb") => UNCHANGED usb_if_prev]_vars
    /\ [][(pc = "free_usb") =>
            IF usb_if_prev # "none"
            THEN /\ log' = Append(log, "usb_set_config_prev")
                 /\ \/ usb_config' = usb_if_prev /\ pc' = "free_app"
                    \/ usb_config' = usb_config /\ pc' = "halted"
            ELSE /\ log' = log
                 /\ usb_config' = usb_config
                 /\ pc' = "free_app"]_vars

\* an unlocked run over no active configuration that ended without a
\* set_config call in teardown
C19_Witness ==
    /\ pc = "done"
    /\ ~usb_locked
    /\ usb_before = "none"
    /\ usb_if_prev = "none"
    /\ Called("usb_get_config")
    /\ Called("usb_set_config_none")
    /\ ~Called("usb_set_config_prev")

====
